---- MODULE Spec2Model ----
(***************************************************************************)
(* Verification model of the background-computation core of               *)
(* picture_viewer: BaseWorker / UnifiedThumbnailWorker (cancellable       *)
(* task), WorkerManager (pool), UnifiedThumbnailCache (tiered cache) and   *)
(* BatchProcessor (batch coordinator).                                     *)
(*                                                                         *)
(* Each component has its own specification (SpecPool, SpecCancel,         *)
(* SpecCache, SpecBatch); all of them range over the same variables and    *)
(* leave the variables of the other components unchanged.                  *)
(***************************************************************************)
EXTENDS Integers, Sequences, FiniteSets, TLC

\* ------------------------------------------------------------------ bounds
NumTasks == 2       \* worker objects that can be constructed and submitted
NumIds == 2         \* distinct worker ids handed to the WorkerManager
MaxThreads == 2     \* QThreadPool.maxThreadCount() of the modelled host
NumCallers == 2     \* threads that call BaseWorker.cancel() on one worker
MaxCalls == 2       \* cancel() calls each such thread makes
MaxAllDone == 2     \* cancel_all() is not called once all_workers_done was emitted this often
NumPaths == 2       \* source image paths
NumSizes == 1       \* thumbnail sizes requested
NumArts == 2        \* distinct non-null artifacts
MaxMtime == 1       \* source mtimes, in ticks
MaxTime == 1        \* seconds the clock advances
MaxMemLimit == 2    \* memory_limit ranges over 0..MaxMemLimit
MaxDiskLimit == 10  \* disk_cache_limit, in the unit of ArtSize
MaxErrors == 1       \* exceptions counted in self.stats["errors"]
NumThreads == 2     \* threads calling one cache besides the cleanup timer
MaxSweeps == 2      \* timeouts of cleanup_timer in one run
MaxThreadCalls == 2 \* cache calls made by the threads together in one run
NumDirs == 2        \* directories holding the requested images
MaxActive == 2      \* largest max_concurrent_requests of an EnhancedImageLoader
MaxCacheCalls == 3  \* get_thumbnail / store_thumbnail calls in one run
MaxListLen == 2     \* length of the image_paths list given to process_images
MaxRuns == 3        \* process_images calls in one run of the program
MaxBatch == 2       \* batch_size ranges over 1..MaxBatch
MaxConc == 2        \* max_concurrent ranges over 0..MaxConc
Margin == 6         \* progress arguments lie within Margin of 0 or of 100
MaxClock == 5       \* ticks the progress clock advances to
MaxProgressCalls == 3 \* update_progress calls by one worker
IntervalTicks == 2  \* progress_update_interval (500 ms), in clock ticks
MinChange == 5      \* the change of progress that always emits
NumEntries == 4     \* entries written one after another on a fresh cache
MaxReads == 2       \* get_thumbnail calls that follow those writes
MaxEntryTime == 3   \* seconds the clock advances to while they are written
TicksPerSecond == 2 \* mtime ticks per second: int(mtime) drops the fraction

Tasks == 1..NumTasks
Ids == 1..NumIds
Callers == 1..NumCallers
None == 0

\* engines of UnifiedThumbnailWorker (ENGINE_QT / ENGINE_PIL / ENGINE_VIPS)
ENGINE_QT == "qt"
ENGINE_PIL == "pil"
ENGINE_VIPS == "vips"

VARIABLES
    worker,         \* per worker object: the BaseWorker / UnifiedThumbnailWorker fields
    stored,         \* workers whose artifact was passed to store_thumbnail
    caps,           \* HAS_PIL, HAS_VIPS and the generation config read in __init__
    active_workers, \* WorkerManager.active_workers: id -> worker or None
    worker_start_times, \* ids with a recorded start time
    inbox,          \* per worker: signals emitted but not yet handled by the manager
    mgrSig,         \* signals emitted by the WorkerManager, counted
    caller,         \* threads calling BaseWorker.cancel() on worker 1
    memory_cache,   \* BaseThumbnailCache.memory_cache: key -> artifact (NoArt = absent)
    access_order,   \* BaseThumbnailCache.access_order, least recently used first
    db,             \* thumbnails table: (image_path, size) -> row or NoRow
    files,          \* backing file of (image_path, size): its artifact, NoArt = no file
    source,         \* per image_path: whether the file exists, and its mtime
    now,            \* int(time.time())
    limits,         \* memory_limit and disk_cache_limit of the cache instance
    last,           \* the last cache call and what it returned
    cache_calls,    \* number of get_thumbnail / store_thumbnail calls so far
    stats,          \* self.stats, and the row of the cache_stats table (db_*)
    batch,          \* the BatchProcessor fields and the signals it has emitted
    prog,           \* one worker's progress throttle: last_progress, last_progress_time
    scn,            \* the cache calls made so far on a fresh cache, in order
    thr,            \* cache_lock, the calls of the threads using the cache, the sweep
    loader          \* EnhancedImageLoader: pending_requests, active_requests, callbacks

workerVars == <<worker, stored>>
mgrVars == <<active_workers, worker_start_times, inbox, mgrSig>>
poolVars == <<worker, stored, caps, mgrVars, caller>>
cacheVars == <<memory_cache, access_order, db, files, source, now, limits, last,
               cache_calls, stats>>
extraVars == <<prog, scn, thr, loader>>
restVars == <<cacheVars, batch, extraVars>>
vars == <<worker, stored, caps, active_workers, worker_start_times, inbox, mgrSig,
          caller, memory_cache, access_order, db, files, source, now, limits, last,
          cache_calls, stats,
          batch, prog, scn, thr, loader>>

\* ---------------------------------------------------------------- helpers
Count(seq, x) == Cardinality({i \in DOMAIN seq : seq[i] = x})

Last(seq) == seq[Len(seq)]

\* ------------------------------------------- BaseWorker.__init__ (workers.py)
\* pc        position in run()/work(); "new" = constructed, not yet submitted
\* sig       lifecycle signals emitted so far: started / result / error / finished
\* cancelled number of signals.cancelled emissions
\* wid       id the worker was submitted under (None before)
\* use_engine / cur_engine / checksLeft / tried / pixmap: locals of work()
\* raisedAt  -1, or Len(tried) at the moment CancellationError was raised
\* size      what _get_image_size found: "" (not asked), "unknown", "small", "large"
NewWorker ==
    [pc |-> "new", is_cancelled |-> FALSE, sig |-> <<>>, cancelled |-> 0,
     wid |-> None, use_engine |-> "", cur_engine |-> "", checksLeft |-> 0,
     tried |-> <<>>, pixmap |-> "none", raisedAt |-> -1, size |-> ""]

Set(t, fields) == worker' = [worker EXCEPT ![t] = fields]

Emit(w, s) == [w EXCEPT !.sig = Append(@, s)]

\* positions at which the worker occupies a pool thread
RunningPcs ==
    {"r_started", "work", "w_cache", "w_exists", "w_engine", "g_run",
     "w_after", "w_final", "w_store", "r_result", "r_cancelled", "r_error",
     "r_finally"}

Running(t) == worker[t].pc \in RunningPcs

\* ---------------------------------------------- BaseWorker.cancel (61-76)
\* The whole call, as made by a single caller at a time.
CancelFields(w) ==
    IF w.is_cancelled THEN w
    ELSE [w EXCEPT !.is_cancelled = TRUE, !.cancelled = @ + 1]

CancelReturns(w) == ~w.is_cancelled

\* ------------------------------- UnifiedThumbnailWorker (unified_thumbnail_worker.py)
\* _determine_best_engine without its third branch
BestEngine_NoVipsForSmall(sizeKnown, large) ==
    LET use_vips_preferred == caps.use_vips /\ caps.HAS_VIPS IN
    IF ~sizeKnown THEN ENGINE_QT
    ELSE IF use_vips_preferred /\ large THEN ENGINE_VIPS
    ELSE IF caps.HAS_PIL THEN ENGINE_PIL
    ELSE ENGINE_QT

\* _determine_best_engine (239-274); sizeKnown = _get_image_size() succeeded,
\* large = max(width, height) > size_threshold
BestEngine(sizeKnown, large) ==
    LET use_vips_preferred == caps.use_vips /\ caps.HAS_VIPS IN
    IF ~sizeKnown THEN ENGINE_QT
    ELSE IF use_vips_preferred /\ large THEN ENGINE_VIPS
    ELSE IF caps.HAS_PIL THEN ENGINE_PIL
    ELSE IF use_vips_preferred THEN ENGINE_VIPS
    ELSE ENGINE_QT

\* check_cancelled() calls inside one backend:
\* _generate_with_pil 345,352; _generate_with_vips 415,428; _generate_with_qt 490
CheckPoints(engine) == IF engine = ENGINE_QT THEN 1 ELSE 2

\* a backend whose library is missing returns None at once (328, 391)
Available(engine) ==
    \/ engine = ENGINE_QT
    \/ engine = ENGINE_PIL /\ caps.HAS_PIL
    \/ engine = ENGINE_VIPS /\ caps.HAS_VIPS

\* _create_error_placeholder (514-535): QPixmap is not a QObject, so
\* pixmap.setProperty raises AttributeError; the except branch calls
\* setProperty again on the 1x1 pixmap and that AttributeError leaves the method.
CreateErrorPlaceholderRaises == TRUE

\* line 211: pixmap.property("isErrorPlaceholder") raises AttributeError for the
\* same reason; the except at 215 swallows it and store_thumbnail is not reached.
PixmapPropertyRaises == TRUE

\* entering a backend: one more attempt recorded
BeginAttempt(w, engine) ==
    [w EXCEPT !.cur_engine = engine, !.tried = Append(@, engine),
              !.checksLeft = CheckPoints(engine), !.pc = "g_run"]

\* check_cancelled (78-91) raising CancellationError, caught by run() at 144
RaiseCancelled(w) == [w EXCEPT !.raisedAt = Len(w.tried), !.pc = "r_cancelled"]

\* a backend returning to work(): line 185 after the first attempt, 199 after a fallback
BackendReturns(w, result) ==
    [w EXCEPT !.pixmap = result,
              !.pc = IF Len(w.tried) = 1 THEN "w_after" ELSE "w_final"]

\* the handler of a backend seeing CancellationError treats it as a failure
\* (what 'except Exception' alone would do)
OnBackendCancelled_AsFailure(w) ==
    BackendReturns([w EXCEPT !.raisedAt = Len(w.tried)], "none")

\* 'except CancellationError: raise' of the three backends (382, 459, 507)
\* and of work() (227-230)
OnBackendCancelled(w) == RaiseCancelled(w)

PoolHasThread == Cardinality({t \in Tasks : Running(t)}) < MaxThreads

\* QThreadPool runs a queued worker: run() 121-128, started.emit()
RunBegin(t) ==
    /\ worker[t].pc = "queued"
    /\ PoolHasThread
    /\ Set(t, Emit([worker[t] EXCEPT !.pc = "r_started"], "started"))
    /\ UNCHANGED <<stored, caps, mgrVars, caller, restVars>>

\* the early return of run() leaves without the finally block
RunCheckCancelled_NoFinally(t) ==
    /\ worker[t].pc = "r_started"
    /\ Set(t, IF worker[t].is_cancelled
              THEN [worker[t] EXCEPT !.pc = "done"]
              ELSE [worker[t] EXCEPT !.pc = "work"])
    /\ UNCHANGED <<stored, caps, mgrVars, caller, restVars>>

\* run() 130-133: cancelled before start -> return (through finally)
RunCheckCancelled(t) ==
    /\ worker[t].pc = "r_started"
    /\ Set(t, IF worker[t].is_cancelled
              THEN [worker[t] EXCEPT !.pc = "r_finally"]
              ELSE [worker[t] EXCEPT !.pc = "work"])
    /\ UNCHANGED <<stored, caps, mgrVars, caller, restVars>>

\* work() 135-136
WorkCheck(t) ==
    /\ worker[t].pc = "work"
    /\ Set(t, IF worker[t].is_cancelled
              THEN RaiseCancelled(worker[t])
              ELSE [worker[t] EXCEPT !.pc = "w_cache"])
    /\ UNCHANGED <<stored, caps, mgrVars, caller, restVars>>

\* work() 138-149: early exit on a cache hit; a miss or a cache error goes on
WorkCacheLookup(t) ==
    /\ worker[t].pc = "w_cache"
    /\ \/ /\ caps.has_cache
          /\ Set(t, [worker[t] EXCEPT !.pixmap = "cached", !.pc = "r_result"])
       \/ Set(t, [worker[t] EXCEPT !.pc = "w_exists"])
    /\ UNCHANGED <<stored, caps, mgrVars, caller, restVars>>

\* work() 151-155: a missing source returns the placeholder (outside the try)
WorkExists(t) ==
    /\ worker[t].pc = "w_exists"
    /\ \E exists \in BOOLEAN :
         Set(t, IF exists THEN [worker[t] EXCEPT !.pc = "w_engine"]
                ELSE IF CreateErrorPlaceholderRaises
                     THEN [worker[t] EXCEPT !.pc = "r_error"]
                     ELSE [worker[t] EXCEPT !.pixmap = "placeholder",
                                            !.pc = "r_result"])
    /\ UNCHANGED <<stored, caps, mgrVars, caller, restVars>>

\* work() 167-182: choose the engine and enter its backend
WorkEngine(t) ==
    /\ worker[t].pc = "w_engine"
    /\ \E sizeKnown \in BOOLEAN, large \in BOOLEAN :
         LET e == BestEngine(sizeKnown, large)
             sz == IF ~sizeKnown THEN "unknown" ELSE IF large THEN "large" ELSE "small" IN
         Set(t, BeginAttempt([worker[t] EXCEPT !.use_engine = e, !.size = sz], e))
    /\ UNCHANGED <<stored, caps, mgrVars, caller, restVars>>

\* a check_cancelled() point inside the running backend
GenCheck(t) ==
    /\ worker[t].pc = "g_run"
    /\ worker[t].checksLeft > 0
    /\ Set(t, IF worker[t].is_cancelled
              THEN OnBackendCancelled(worker[t])
              ELSE [worker[t] EXCEPT !.checksLeft = @ - 1])
    /\ UNCHANGED <<stored, caps, mgrVars, caller, restVars>>

\* the backend returns a valid pixmap (after its last check point)
GenSucceed(t) ==
    /\ worker[t].pc = "g_run"
    /\ worker[t].checksLeft = 0
    /\ Available(worker[t].cur_engine)
    /\ Set(t, BackendReturns(worker[t], "valid"))
    /\ UNCHANGED <<stored, caps, mgrVars, caller, restVars>>

\* the backend returns None: load error, null image, any caught Exception
GenFail(t) ==
    /\ worker[t].pc = "g_run"
    /\ Set(t, BackendReturns(worker[t], "none"))
    /\ UNCHANGED <<stored, caps, mgrVars, caller, restVars>>

\* work() that gives up after the first failed attempt
WorkAfter_NoFallback(t) ==
    /\ worker[t].pc = "w_after"
    /\ Set(t, [worker[t] EXCEPT !.pc = "w_final"])
    /\ UNCHANGED <<stored, caps, mgrVars, caller, restVars>>

\* work() 184-196: one fallback attempt, Qt first, else PIL
WorkAfter(t) ==
    /\ worker[t].pc = "w_after"
    /\ LET w == worker[t] IN
       Set(t, IF w.pixmap # "none" THEN [w EXCEPT !.pc = "w_final"]
              ELSE IF w.use_engine # ENGINE_QT /\ caps.fallback_to_qt
                   THEN BeginAttempt(w, ENGINE_QT)
              ELSE IF w.use_engine # ENGINE_PIL /\ caps.HAS_PIL
                   THEN BeginAttempt(w, ENGINE_PIL)
              ELSE [w EXCEPT !.pc = "w_final"])
    /\ UNCHANGED <<stored, caps, mgrVars, caller, restVars>>

\* work() that hands the placeholder it made to store_thumbnail
WorkFinal_StoresPlaceholder(t) ==
    /\ worker[t].pc = "w_final"
    /\ LET w == worker[t] IN
       /\ Set(t, IF w.pixmap # "none" THEN [w EXCEPT !.pc = "w_store"]
                 ELSE [w EXCEPT !.pixmap = "placeholder", !.pc = "r_result"])
       /\ stored' = IF w.pixmap = "none" /\ caps.has_cache
                    THEN stored \cup {t} ELSE stored
    /\ UNCHANGED <<caps, mgrVars, caller, restVars>>

\* work() 198-204 and the handler 232-237: placeholder when every attempt failed;
\* the AttributeError of 201 is caught at 232, 237 raises it again out of work()
WorkFinal(t) ==
    /\ worker[t].pc = "w_final"
    /\ LET w == worker[t] IN
       Set(t, IF w.pixmap # "none" THEN [w EXCEPT !.pc = "w_store"]
              ELSE IF CreateErrorPlaceholderRaises
                   THEN [w EXCEPT !.pc = "r_error"]
                   ELSE [w EXCEPT !.pixmap = "placeholder", !.pc = "w_store"])
    /\ UNCHANGED <<stored, caps, mgrVars, caller, restVars>>

\* work() 206-225: store unless placeholder, then return (path, pixmap)
WorkStore(t) ==
    /\ worker[t].pc = "w_store"
    /\ Set(t, [worker[t] EXCEPT !.pc = "r_result"])
    /\ stored' = IF /\ caps.has_cache
                    /\ worker[t].pixmap # "placeholder"
                    /\ ~PixmapPropertyRaises
                 THEN stored \cup {t} ELSE stored
    /\ UNCHANGED <<caps, mgrVars, caller, restVars>>

\* run() 138-142: result.emit unless cancelled meanwhile
RunResult(t) ==
    /\ worker[t].pc = "r_result"
    /\ Set(t, IF worker[t].is_cancelled
              THEN [worker[t] EXCEPT !.pc = "r_finally"]
              ELSE Emit([worker[t] EXCEPT !.pc = "r_finally"], "result"))
    /\ UNCHANGED <<stored, caps, mgrVars, caller, restVars>>

\* run() 144-146: cancellation is not an error
RunCancelled(t) ==
    /\ worker[t].pc = "r_cancelled"
    /\ Set(t, [worker[t] EXCEPT !.pc = "r_finally"])
    /\ UNCHANGED <<stored, caps, mgrVars, caller, restVars>>

\* run() 148-155: error.emit unless cancelled
RunError(t) ==
    /\ worker[t].pc = "r_error"
    /\ IF worker[t].is_cancelled
       THEN /\ Set(t, [worker[t] EXCEPT !.pc = "r_finally"])
            /\ UNCHANGED inbox
       ELSE /\ Set(t, Emit([worker[t] EXCEPT !.pc = "r_finally"], "error"))
            /\ inbox' = [inbox EXCEPT ![t] = Append(@, "error")]
    /\ UNCHANGED <<stored, caps, active_workers, worker_start_times, mgrSig, caller, restVars>>

\* run() 157-163: finished.emit, always
RunFinally(t) ==
    /\ worker[t].pc = "r_finally"
    /\ Set(t, Emit([worker[t] EXCEPT !.pc = "done"], "finished"))
    /\ inbox' = [inbox EXCEPT ![t] = Append(@, "finished")]
    /\ UNCHANGED <<stored, caps, active_workers, worker_start_times, mgrSig, caller, restVars>>

\* ---------------------------------- BaseWorker.work of an arbitrary subclass
\* work() (165-178) is abstract: a body calls check_cancelled() at its safe
\* points and ends by returning a value or by raising an Exception.
WorkBody(t) ==
    /\ worker[t].pc = "work"
    /\ \/ /\ worker[t].is_cancelled           \* a check_cancelled() point
          /\ Set(t, RaiseCancelled(worker[t]))
       \/ Set(t, [worker[t] EXCEPT !.pixmap = "valid", !.pc = "r_result"])
       \/ Set(t, [worker[t] EXCEPT !.pc = "r_error"])
    /\ UNCHANGED <<stored, caps, mgrVars, caller, restVars>>

\* run() of any worker, outside work()
RunStep(t) ==
    \/ RunBegin(t) \/ RunCheckCancelled(t) \/ RunResult(t) \/ RunCancelled(t)
    \/ RunError(t) \/ RunFinally(t)

\* work() of UnifiedThumbnailWorker
ThumbStep(t) ==
    \/ WorkCheck(t) \/ WorkCacheLookup(t) \/ WorkExists(t) \/ WorkEngine(t)
    \/ GenCheck(t) \/ GenSucceed(t) \/ GenFail(t) \/ WorkAfter(t)
    \/ WorkFinal(t) \/ WorkStore(t)

\* ------------------------------------------ WorkerManager (worker_manager.py)
\* cancel_worker 147, 170, 173: True when the id was active, False otherwise
CancelWorkerReturns(i) == active_workers[i] # None

\* cancel_worker that leaves the bookkeeping to the finished handler
CancelActive_NoPop(i, wk, act, times, sig) ==
    [wk |-> [wk EXCEPT ![act[i]] = CancelFields(@)],
     act |-> act,
     times |-> times,
     sig |-> [sig EXCEPT !.cancelled = @ + 1]]

\* cancel_worker (133-177) for an id known to be active: worker.cancel(), pop both
\* maps, worker_cancelled.emit
CancelActive(i, wk, act, times, sig) ==
    [wk |-> [wk EXCEPT ![act[i]] = CancelFields(@)],
     act |-> [act EXCEPT ![i] = None],
     times |-> times \ {i},
     sig |-> [sig EXCEPT !.cancelled = @ + 1]]

\* what start_worker that returns True leaves behind (83-108)
StartSuccess(i, t) ==
    LET c == IF active_workers[i] # None
             THEN CancelActive(i, worker, active_workers, worker_start_times, mgrSig)
             ELSE [wk |-> worker, act |-> active_workers,
                   times |-> worker_start_times, sig |-> mgrSig] IN
    [wk |-> [c.wk EXCEPT ![t] = [@ EXCEPT !.pc = "queued", !.wid = i]],
     act |-> [c.act EXCEPT ![i] = t],
     times |-> c.times \cup {i},
     sig |-> [c.sig EXCEPT !.started = @ + 1],
     ret |-> TRUE]

\* start_worker replaces the registered worker without cancelling it
StartWorker_NoCancel(i, t) ==
    /\ worker[t].pc = "new"
    /\ worker' = [worker EXCEPT ![t] = [@ EXCEPT !.pc = "queued", !.wid = i]]
    /\ active_workers' = [active_workers EXCEPT ![i] = t]
    /\ worker_start_times' = worker_start_times \cup {i}
    /\ mgrSig' = [mgrSig EXCEPT !.started = @ + 1]
    /\ UNCHANGED <<stored, caps, inbox, caller, restVars>>

\* start_worker (65-108): cancel a worker already active under the id, connect
\* finished/error to the manager, register, threadpool.start, worker_started.emit
StartWorker(i, t) ==
    /\ worker[t].pc = "new"
    /\ LET s == StartSuccess(i, t) IN
       /\ worker' = s.wk
       /\ active_workers' = s.act
       /\ worker_start_times' = s.times
       /\ mgrSig' = s.sig
    /\ UNCHANGED <<stored, caps, inbox, caller, restVars>>

\* start_worker whose except branch emits the error and keeps the registration
StartFailure_NoRollback(i, t) ==
    LET c == IF active_workers[i] # None
             THEN CancelActive(i, worker, active_workers, worker_start_times, mgrSig)
             ELSE [wk |-> worker, act |-> active_workers,
                   times |-> worker_start_times, sig |-> mgrSig] IN
    [wk |-> [c.wk EXCEPT ![t] = [@ EXCEPT !.pc = "failed", !.wid = i]],
     act |-> [c.act EXCEPT ![i] = t],
     times |-> c.times \cup {i},
     sig |-> [c.sig EXCEPT !.errors = @ + 1],
     ret |-> FALSE]

\* start_worker (65-116) when threadpool.start raises: the worker already active
\* under the id has been cancelled, the new one registered; the except branch
\* pops the id from both maps, emits error_occurred and returns False.
\* pc "failed": the worker was never queued
StartFailure(i, t) ==
    LET c == IF active_workers[i] # None
             THEN CancelActive(i, worker, active_workers, worker_start_times, mgrSig)
             ELSE [wk |-> worker, act |-> active_workers,
                   times |-> worker_start_times, sig |-> mgrSig] IN
    [wk |-> [c.wk EXCEPT ![t] = [@ EXCEPT !.pc = "failed", !.wid = i]],
     act |-> [c.act EXCEPT ![i] = None],
     times |-> c.times \ {i},
     sig |-> [c.sig EXCEPT !.errors = @ + 1],
     ret |-> FALSE]

StartWorkerFails(i, t) ==
    /\ worker[t].pc = "new"
    /\ LET r == StartFailure(i, t) IN
       /\ worker' = r.wk
       /\ active_workers' = r.act
       /\ worker_start_times' = r.times
       /\ mgrSig' = r.sig
    /\ UNCHANGED <<stored, caps, inbox, caller, restVars>>

\* cancel_worker (133-177)
CancelWorker(i) ==
    /\ IF active_workers[i] # None
       THEN LET c == CancelActive(i, worker, active_workers, worker_start_times, mgrSig) IN
            /\ worker' = c.wk
            /\ active_workers' = c.act
            /\ worker_start_times' = c.times
            /\ mgrSig' = c.sig
       ELSE UNCHANGED <<worker, active_workers, worker_start_times, mgrSig>>
    /\ UNCHANGED <<stored, caps, inbox, caller, restVars>>

\* cancel_all (180-209): cancel_worker for every active id, then
\* all_workers_done.emit since the active map is empty
CancelAll ==
    /\ mgrSig.all_done < MaxAllDone
    /\ LET ids == {i \in Ids : active_workers[i] # None} IN
       /\ worker' = [t \in Tasks |->
                       IF \E i \in ids : active_workers[i] = t
                       THEN CancelFields(worker[t]) ELSE worker[t]]
       /\ active_workers' = [i \in Ids |-> None]
       /\ worker_start_times' = worker_start_times \ ids
       /\ mgrSig' = [mgrSig EXCEPT !.cancelled = @ + Cardinality(ids),
                                   !.all_done = @ + 1]
    /\ UNCHANGED <<stored, caps, inbox, caller, restVars>>

\* mark_worker_finished (308-334)
MarkFinished(i, act, times, sig) ==
    IF act[i] # None
    THEN LET act2 == [act EXCEPT ![i] = None] IN
         [act |-> act2,
          times |-> times \ {i},
          sig |-> [sig EXCEPT !.finished[i] = @ + 1,
                              !.all_done = IF \A j \in Ids : act2[j] = None
                                           THEN @ + 1 ELSE @]]
    ELSE [act |-> act, times |-> times, sig |-> sig]

\* _handle_worker_finished (118-121), run by the worker's finished signal
HandleFinished(t) ==
    /\ inbox[t] # <<>>
    /\ Head(inbox[t]) = "finished"
    /\ LET m == MarkFinished(worker[t].wid, active_workers, worker_start_times, mgrSig) IN
       /\ active_workers' = m.act
       /\ worker_start_times' = m.times
       /\ mgrSig' = m.sig
    /\ inbox' = [inbox EXCEPT ![t] = Tail(@)]
    /\ UNCHANGED <<worker, stored, caps, caller, restVars>>

\* _handle_worker_error (123-130), run by the worker's error signal
HandleError(t) ==
    /\ inbox[t] # <<>>
    /\ Head(inbox[t]) = "error"
    /\ LET m == MarkFinished(worker[t].wid, active_workers, worker_start_times, mgrSig) IN
       /\ active_workers' = m.act
       /\ worker_start_times' = m.times
       /\ mgrSig' = [m.sig EXCEPT !.errors = @ + 1]
    /\ inbox' = [inbox EXCEPT ![t] = Tail(@)]
    /\ UNCHANGED <<worker, stored, caps, caller, restVars>>

\* --------------------------- BaseWorker.cancel called from several threads
\* cancel() 68-72: read the flag; an already cancelled worker returns False
\* caller.pc[c]   "idle", or "set" once c has read the flag as unset
\* caller.calls[c] calls started by c
\* caller.log     values returned so far, in order of return
\* caller.overlap a call was entered while another call was in progress
\* cancel() without the test of the flag
CancelEnter_NoTest(c) ==
    /\ caller.pc[c] = "idle"
    /\ caller.calls[c] < MaxCalls
    /\ caller' = [caller EXCEPT !.calls[c] = @ + 1, !.pc[c] = "set",
                    !.overlap = @ \/ \E d \in Callers : caller.pc[d] = "set"]
    /\ UNCHANGED <<worker, stored, caps, mgrVars, restVars>>

CancelEnter(c) ==
    /\ caller.pc[c] = "idle"
    /\ caller.calls[c] < MaxCalls
    /\ caller' = [caller EXCEPT
                    !.calls[c] = @ + 1,
                    !.pc[c] = IF worker[1].is_cancelled THEN "idle" ELSE "set",
                    !.log = IF worker[1].is_cancelled THEN Append(@, FALSE) ELSE @,
                    !.overlap = @ \/ \E d \in Callers : caller.pc[d] = "set"]
    /\ UNCHANGED <<worker, stored, caps, mgrVars, restVars>>

\* cancel() 74-76: set the flag, cancelled.emit, return True
CancelSet(c) ==
    /\ caller.pc[c] = "set"
    /\ worker' = [worker EXCEPT ![1] = [@ EXCEPT !.is_cancelled = TRUE,
                                                 !.cancelled = @ + 1]]
    /\ caller' = [caller EXCEPT !.pc[c] = "idle", !.log = Append(@, TRUE)]
    /\ UNCHANGED <<stored, caps, mgrVars, restVars>>

\* ------------- BaseThumbnailCache / UnifiedThumbnailCache (models/*.py)
Paths == 1..NumPaths
Sizes == 1..NumSizes
EntryPaths == 1..NumEntries \* paths written one after another on a fresh cache
AllPaths == Paths \cup EntryPaths
PS == AllPaths \X Sizes
NoArt == 0                  \* the null pixmap / None
Arts == 1..NumArts          \* valid artifacts
NoTag == -1                 \* key of a source that does not exist has no mtime part
Tags == NoTag..((MaxMtime + TicksPerSecond) \div TicksPerSecond)
Keys == AllPaths \X Sizes \X Tags

RECURSIVE SumSizes(_, _)
RECURSIVE CleanupLoop(_, _)

\* self.stats (61-66) and the single row of cache_stats (131-149), all zero
NewStats ==
    [hits |-> 0, misses |-> 0, writes |-> 0, errors |-> 0,
     db_hits |-> 0, db_misses |-> 0, db_writes |-> 0, db_errors |-> 0]

\* a row of the thumbnails table (unified_thumbnail_cache.py 98-111)
NoRow == [present |-> FALSE, cache_key |-> <<1, 1, NoTag>>, file_size |-> 0,
          last_accessed |-> 0]

\* the most recent cache call: a put with its argument and outcome, or a get with
\* its return value and, when it directly follows a put of the same path and
\* size, that put's argument and outcome; over = the put left the table's total
\* above disk_cache_limit, so that its cleanup pass ran
NoCall == [op |-> "none", ps |-> <<1, 1>>, v |-> NoArt, ok |-> FALSE,
           evicted |-> FALSE, ret |-> NoArt, afterPut |-> FALSE,
                     over |-> FALSE]

\* os.path.getsize of the PNG written for an artifact
ArtSize(v) == 3 * v

\* _make_cache_key: path, size and int(mtime) when the source exists
MakeKey(p, sz) ==
    IF source[p].exists THEN <<p, sz, source[p].mtime \div TicksPerSecond>>
    ELSE <<p, sz, NoTag>>

MemKeys(mc) == {k \in Keys : mc[k] # NoArt}

Remove(seq, x) == SelectSeq(seq, LAMBDA y : y # x)

\* an access order that puts the key used last at the front
UpdateAccessOrder_Front(order, key) == <<key>> \o Remove(order, key)

\* _update_access_order
UpdateAccessOrder(order, key) == Append(Remove(order, key), key)

\* _add_to_memory_cache that inserts without evicting
AddToMemoryCache_NoEvict(mc, order, key, v) ==
    [mc |-> [mc EXCEPT ![key] = v], order |-> UpdateAccessOrder(order, key)]

\* _add_to_memory_cache
AddToMemoryCache(mc, order, key, v) ==
    LET evict == /\ Cardinality(MemKeys(mc)) >= limits.memory
                 /\ mc[key] = NoArt
                 /\ order # <<>>
        mc1 == IF evict THEN [mc EXCEPT ![Head(order)] = NoArt] ELSE mc
        ord1 == IF evict THEN Tail(order) ELSE order
    IN [mc |-> [mc1 EXCEPT ![key] = v], order |-> UpdateAccessOrder(ord1, key)]

\* SELECT SUM(file_size) FROM thumbnails
SumSizes(d, S) ==
    IF S = {} THEN 0
    ELSE LET x == CHOOSE y \in S : TRUE IN d[x].file_size + SumSizes(d, S \ {x})

TotalSize(d) == SumSizes(d, PS)

\* target_size = disk_cache_limit * 0.8: current_size <= target_size
AtTarget(cur) == 10 * cur <= 8 * limits.disk

\* the rows newest first
SortedOrders_Descending(d) ==
    LET rows == {x \in PS : d[x].present}
        n == Cardinality(rows) IN
    {s \in [1..n -> rows] :
        /\ \A i \in 1..n, j \in 1..n : i # j => s[i] # s[j]
        /\ \A i \in 1..n, j \in 1..n :
              i < j => d[s[i]].last_accessed >= d[s[j]].last_accessed}

\* SELECT ... ORDER BY last_accessed ASC: every order of the rows that is
\* ascending in last_accessed; rows with equal times come in any order
SortedOrders(d) ==
    LET rows == {x \in PS : d[x].present}
        n == Cardinality(rows) IN
    {s \in [1..n -> rows] :
        /\ \A i \in 1..n, j \in 1..n : i # j => s[i] # s[j]
        /\ \A i \in 1..n, j \in 1..n :
              i < j => d[s[i]].last_accessed <= d[s[j]].last_accessed}

\* a cleanup that deletes the oldest entry only
CleanupLoop_Once(entries, st) ==
    IF entries = <<>> \/ AtTarget(st.cur) THEN st
    ELSE LET x == Head(entries)
             row == st.db[x]
             k == row.cache_key
             inMem == st.mc[k] # NoArt
         IN [mc |-> IF inMem THEN [st.mc EXCEPT ![k] = NoArt] ELSE st.mc,
             order |-> IF inMem THEN Remove(st.order, k) ELSE st.order,
             db |-> [st.db EXCEPT ![x] = NoRow],
             files |-> [st.files EXCEPT ![x] = NoArt],
             cur |-> st.cur - row.file_size]

\* the loop of _cleanup_disk_cache over the fetched entries
CleanupLoop(entries, st) ==
    IF entries = <<>> \/ AtTarget(st.cur) THEN st
    ELSE LET x == Head(entries)
             row == st.db[x]
             k == row.cache_key
             inMem == st.mc[k] # NoArt
         IN CleanupLoop(Tail(entries),
                [mc |-> IF inMem THEN [st.mc EXCEPT ![k] = NoArt] ELSE st.mc,
                 order |-> IF inMem THEN Remove(st.order, k) ELSE st.order,
                 db |-> [st.db EXCEPT ![x] = NoRow],
                 files |-> [st.files EXCEPT ![x] = NoArt],
                 cur |-> st.cur - row.file_size])

\* _cleanup_disk_cache
CleanupDiskCache(st, entries) ==
    IF AtTarget(st.cur) THEN st ELSE CleanupLoop(entries, st)

\* _cleanup_disk_cache_if_needed
CleanupDiskCacheIfNeeded(st, entries) ==
    IF st.cur > limits.disk THEN CleanupDiskCache(st, entries) ELSE st

\* _save_to_disk when thumbnail.save succeeded: file written, row upserted
SaveToDisk(d, f, p, sz, v, key) ==
    [db |-> [d EXCEPT ![<<p, sz>>] =
                [present |-> TRUE, cache_key |-> key, file_size |-> ArtSize(v),
                 last_accessed |-> now]],
     files |-> [f EXCEPT ![<<p, sz>>] = v]]

\* store_thumbnail; saveOk = thumbnail.save(cache_path) succeeded
StoreThumbnail(p, sz, v) ==
    IF v = NoArt
    THEN /\ last' = [op |-> "put", ps |-> <<p, sz>>, v |-> v, ok |-> FALSE,
                     evicted |-> FALSE, ret |-> NoArt, afterPut |-> FALSE,
                     over |-> FALSE]
         /\ UNCHANGED <<memory_cache, access_order, db, files, stats>>
    ELSE LET key == MakeKey(p, sz)
             m == AddToMemoryCache(memory_cache, access_order, key, v) IN
         \E saveOk \in BOOLEAN :
            IF saveOk
            THEN LET sv == SaveToDisk(db, files, p, sz, v, key) IN
                 \E entries \in SortedOrders(sv.db) :
                    LET st == CleanupDiskCacheIfNeeded(
                                [mc |-> m.mc, order |-> m.order, db |-> sv.db,
                                 files |-> sv.files, cur |-> TotalSize(sv.db)],
                                entries) IN
                    /\ memory_cache' = st.mc
                    /\ access_order' = st.order
                    /\ db' = st.db
                    /\ files' = st.files
                    /\ stats' = [stats EXCEPT !.writes = @ + 1]
                    /\ last' = [op |-> "put", ps |-> <<p, sz>>, v |-> v, ok |-> TRUE,
                                evicted |-> st.mc[key] = NoArt, ret |-> NoArt,
                                afterPut |-> FALSE,
                                over |-> TotalSize(sv.db) > limits.disk]
            ELSE /\ memory_cache' = m.mc
                 /\ access_order' = m.order
                 /\ UNCHANGED <<db, files, stats>>
                 /\ last' = [op |-> "put", ps |-> <<p, sz>>, v |-> v, ok |-> FALSE,
                             evicted |-> FALSE, ret |-> NoArt, afterPut |-> FALSE,
                     over |-> FALSE]

Put(p, sz, v) ==
    /\ cache_calls < MaxCacheCalls
    /\ cache_calls' = cache_calls + 1
    /\ StoreThumbnail(p, sz, v)
    /\ UNCHANGED <<source, now, limits, poolVars, batch, extraVars>>

\* a guard that lets every path through
SourceMissing_Never(p) == FALSE

\* the guard at the top of get_thumbnail: not os.path.exists(image_path)
SourceMissing(p) == ~source[p].exists

\* what get_thumbnail returned, recorded next to the put it follows (if any)
GetRecord(p, sz, result) ==
    IF last.op = "put" /\ last.ps = <<p, sz>> /\ last.v # NoArt
    THEN [last EXCEPT !.op = "get", !.ret = result, !.afterPut = TRUE]
    ELSE [NoCall EXCEPT !.op = "get", !.ps = <<p, sz>>, !.ret = result]

\* the part of get_thumbnail under cache_lock (180-215), with _load_from_disk
\* and _update_db_access_time
GetThumbnailLocked(p, sz) ==
    LET key == MakeKey(p, sz)
        x == <<p, sz>>
        touched == IF db[x].present THEN [db EXCEPT ![x].last_accessed = now] ELSE db
    IN
    IF memory_cache[key] # NoArt
    THEN /\ access_order' = UpdateAccessOrder(access_order, key)
         /\ db' = touched
         /\ last' = GetRecord(p, sz, memory_cache[key])
         /\ stats' = [stats EXCEPT !.hits = @ + 1]
         /\ UNCHANGED <<memory_cache, files>>
    ELSE IF db[x].present /\ files[x] # NoArt
    THEN LET m == AddToMemoryCache(memory_cache, access_order, key, files[x]) IN
         /\ memory_cache' = m.mc
         /\ access_order' = m.order
         /\ db' = touched
         /\ last' = GetRecord(p, sz, files[x])
         /\ stats' = [stats EXCEPT !.hits = @ + 1]
         /\ UNCHANGED files
    ELSE /\ last' = GetRecord(p, sz, NoArt)
         /\ stats' = [stats EXCEPT !.misses = @ + 1]
         /\ UNCHANGED <<memory_cache, access_order, db, files>>

\* get_thumbnail that consults only the disk tier
GetThumbnail_DiskOnly(p, sz) ==
    LET key == MakeKey(p, sz)
        x == <<p, sz>>
    IN
    IF source[p].exists /\ db[x].present /\ files[x] # NoArt
    THEN LET m == AddToMemoryCache(memory_cache, access_order, key, files[x]) IN
         /\ memory_cache' = m.mc
         /\ access_order' = m.order
         /\ db' = [db EXCEPT ![x].last_accessed = now]
         /\ last' = GetRecord(p, sz, files[x])
         /\ stats' = [stats EXCEPT !.hits = @ + 1]
         /\ UNCHANGED files
    ELSE /\ last' = GetRecord(p, sz, NoArt)
         /\ stats' = [stats EXCEPT !.misses = @ + 1]
         /\ UNCHANGED <<memory_cache, access_order, db, files>>

\* get_thumbnail
GetThumbnail(p, sz) ==
    IF SourceMissing(p)
    THEN /\ last' = GetRecord(p, sz, NoArt)
         /\ UNCHANGED <<memory_cache, access_order, db, files, stats>>
    ELSE GetThumbnailLocked(p, sz)

Get(p, sz) ==
    /\ cache_calls < MaxCacheCalls
    /\ cache_calls' = cache_calls + 1
    /\ GetThumbnail(p, sz)
    /\ UNCHANGED <<source, now, limits, poolVars, batch, extraVars>>

\* the clock reaches the next second
Tick ==
    /\ now < MaxTime
    /\ now' = now + 1
    /\ UNCHANGED <<memory_cache, access_order, db, files, source, limits, last,
                   cache_calls, stats, poolVars, batch, extraVars>>

\* the source file is rewritten: its mtime advances by a fraction of a second
TouchSource(p) ==
    /\ source[p].exists
    /\ source[p].mtime < MaxMtime
    /\ source' = [source EXCEPT ![p].mtime = @ + 1]
    /\ last' = NoCall
    /\ UNCHANGED <<memory_cache, access_order, db, files, now, limits, cache_calls,
                   stats, poolVars, batch, extraVars>>

\* the source file is replaced by a new image a whole second later or more
RewriteSource(p) ==
    /\ source[p].exists
    /\ source[p].mtime <= MaxMtime
    /\ source' = [source EXCEPT ![p].mtime = @ + TicksPerSecond]
    /\ last' = NoCall
    /\ UNCHANGED <<memory_cache, access_order, db, files, now, limits, cache_calls,
                   stats, poolVars, batch, extraVars>>

\* the source file is deleted
RemoveSource(p) ==
    /\ source[p].exists
    /\ source' = [source EXCEPT ![p] = [exists |-> FALSE, mtime |-> 0]]
    /\ last' = NoCall
    /\ UNCHANGED <<memory_cache, access_order, db, files, now, limits, cache_calls,
                   stats, poolVars, batch, extraVars>>

\* ------------------------------ BatchProcessor (controllers/batch_processor.py)
\* image_paths arguments of process_images: lists of paths, repeats allowed
KeyLists == UNION {[1..n -> Paths] : n \in 0..MaxListLen}

Min(a, b) == IF a <= b THEN a ELSE b

\* the fields set in __init__, the signals emitted so far, and for the current
\* run whether it was started, whether cancel() ended it, and the paths its
\* scheduling passes have popped from the queue
NewBatch(bs, mc) ==
    [queue |-> <<>>, processing |-> {}, completed |-> {}, current_jobs |-> {},
     total_count |-> 0, is_processing |-> FALSE, batch_size |-> bs,
     max_concurrent |-> mc,
     progress |-> <<0, 0>>, batch_completed |-> 0, error_occurred |-> 0,
     calls |-> 0, started |-> FALSE, cancelled |-> FALSE, popped |-> {}]

\* _update_progress
UpdateProgress(b) == [b EXCEPT !.progress = <<Cardinality(b.completed), b.total_count>>]

\* cancel(): no effect unless a run is active
CancelState(b) ==
    IF ~b.is_processing THEN b
    ELSE [b EXCEPT !.is_processing = FALSE, !.current_jobs = {}, !.processing = {},
                   !.queue = <<>>, !.cancelled = TRUE]

\* _process_next_batch, as run inline by process_images
ProcessNextBatch(b) ==
    IF ~b.is_processing THEN b
    ELSE IF b.queue = <<>> /\ b.current_jobs = {}
    THEN [UpdateProgress([b EXCEPT !.is_processing = FALSE])
             EXCEPT !.batch_completed = @ + 1]
    ELSE IF Cardinality(b.current_jobs) >= b.max_concurrent THEN b
    ELSE LET slots_available == b.max_concurrent - Cardinality(b.current_jobs)
             batch_limit == Min(b.batch_size, Min(slots_available, Len(b.queue)))
         IN IF batch_limit <= 0 THEN b
            ELSE \* the batch is popped; building worker_id for its first path
                 \* evaluates time.time(), a name the module never imports:
                 \* NameError, caught by the outer handler
                 [b EXCEPT !.queue = SubSeq(b.queue, batch_limit + 1, Len(b.queue)),
                           !.popped = @ \cup {b.queue[i] : i \in 1..batch_limit},
                           !.error_occurred = @ + 1,
                           !.is_processing = FALSE]

\* process_images(image_paths)
ProcessImages(keys) ==
    /\ batch.calls < MaxRuns
    /\ LET b0 == [CancelState(batch) EXCEPT !.calls = @ + 1] IN
       IF keys = <<>>
       THEN batch' = [b0 EXCEPT !.error_occurred = @ + 1]
       ELSE batch' = ProcessNextBatch(
                        [b0 EXCEPT !.queue = keys, !.processing = {}, !.completed = {},
                                   !.current_jobs = {}, !.total_count = Len(keys),
                                   !.is_processing = TRUE,
                                   !.progress = <<0, Len(keys)>>,
                                   !.batch_completed = 0,
                                   !.started = TRUE, !.cancelled = FALSE,
                                   !.popped = {}])
    /\ UNCHANGED <<poolVars, cacheVars, extraVars>>

\* cancel() called by the owner of the processor
Cancel ==
    /\ batch.is_processing
    /\ batch' = CancelState(batch)
    /\ UNCHANGED <<poolVars, cacheVars, extraVars>>

\* get_stats 375-396: each counter is self.stats plus the cache_stats row
GetStats(st) ==
    [hits |-> st.hits + st.db_hits, misses |-> st.misses + st.db_misses,
     writes |-> st.writes + st.db_writes, errors |-> st.errors + st.db_errors]

\* clear (259-329): memory and access order emptied; with clear_disk the file of
\* every row removed, the rows deleted and hits, misses, writes of cache_stats
\* set to 0 (301-305); self.stats reset (317-322)
ClearState(clear_disk) ==
    [mc |-> [k \in Keys |-> NoArt],
     order |-> <<>>,
     db |-> IF clear_disk THEN [x \in PS |-> NoRow] ELSE db,
     files |-> IF clear_disk
               THEN [x \in PS |-> IF db[x].present THEN NoArt ELSE files[x]]
               ELSE files,
     stats |-> IF clear_disk
               THEN [NewStats EXCEPT !.db_errors = stats.db_errors]
               ELSE [stats EXCEPT !.hits = 0, !.misses = 0, !.writes = 0, !.errors = 0],
     ret |-> TRUE]

Clear(clear_disk) ==
    /\ LET c == ClearState(clear_disk) IN
       /\ memory_cache' = c.mc
       /\ access_order' = c.order
       /\ db' = c.db
       /\ files' = c.files
       /\ stats' = c.stats
    /\ last' = [NoCall EXCEPT !.op = "clear", !.ok = clear_disk]
    /\ UNCHANGED <<source, now, limits, cache_calls, poolVars, batch, extraVars>>

\* a scan that only tests the source file
InvalidEntries_SourceOnly == {x \in PS : db[x].present /\ ~source[x[1]].exists}

\* the rows purge_invalid_entries collects (497-501): source or cache file missing
InvalidEntries ==
    {x \in PS : db[x].present /\ (~source[x[1]].exists \/ files[x] = NoArt)}

\* purge_invalid_entries (483-540): per invalid row the file removed, the memory
\* entry under the row's cache_key dropped, the row deleted; returns the count
PurgeState ==
    LET gone == {db[x].cache_key : x \in InvalidEntries} \cap MemKeys(memory_cache) IN
    [mc |-> [k \in Keys |-> IF k \in gone THEN NoArt ELSE memory_cache[k]],
     order |-> SelectSeq(access_order, LAMBDA k : k \notin gone),
     db |-> [x \in PS |-> IF x \in InvalidEntries THEN NoRow ELSE db[x]],
     files |-> [x \in PS |-> IF x \in InvalidEntries THEN NoArt ELSE files[x]],
     ret |-> Cardinality(InvalidEntries)]

PurgeInvalidEntries ==
    /\ LET c == PurgeState IN
       /\ memory_cache' = c.mc
       /\ access_order' = c.order
       /\ db' = c.db
       /\ files' = c.files
       /\ last' = [NoCall EXCEPT !.op = "purge", !.ret = c.ret]
    /\ UNCHANGED <<source, now, limits, cache_calls, stats, poolVars, batch, extraVars>>

\* _update_db_stats (692-726): self.stats added to the cache_stats row, then reset
UpdatedDbStats ==
    [hits |-> 0, misses |-> 0, writes |-> 0, errors |-> 0,
     db_hits |-> stats.db_hits + stats.hits,
     db_misses |-> stats.db_misses + stats.misses,
     db_writes |-> stats.db_writes + stats.writes,
     db_errors |-> stats.db_errors + stats.errors]

UpdateDbStats ==
    /\ stats' = UpdatedDbStats
    /\ last' = NoCall
    /\ UNCHANGED <<memory_cache, access_order, db, files, source, now, limits,
                   cache_calls, poolVars, batch, extraVars>>

\* get_stats whose database query raises (410-414): the error is counted
GetStatsFails ==
    /\ GetStats(stats).errors < MaxErrors
    /\ stats' = [stats EXCEPT !.errors = @ + 1]
    /\ last' = NoCall
    /\ UNCHANGED <<memory_cache, access_order, db, files, source, now, limits,
                   cache_calls, poolVars, batch, extraVars>>

\* a cache file is deleted from the cache directory by someone else
DeleteFile(x) ==
    /\ files[x] # NoArt
    /\ files' = [files EXCEPT ![x] = NoArt]
    /\ last' = NoCall
    /\ UNCHANGED <<memory_cache, access_order, db, source, now, limits,
                   cache_calls, stats, poolVars, batch, extraVars>>

\* ------------- one cache used by several threads and by its cleanup_timer
CacheThreads == 1..NumThreads
Timer == 0                  \* the thread on which cleanup_timer fires
NoThread == -1              \* cache_lock is free

\* the public calls a thread can make: get_thumbnail, store_thumbnail of a valid
\* pixmap, clear and purge_invalid_entries
NoOp == [op |-> "idle", p |-> 1, sz |-> 1, v |-> NoArt, clear_disk |-> FALSE]

CacheOps ==
    {[NoOp EXCEPT !.op = "get", !.p = p, !.sz = sz] : p \in Paths, sz \in Sizes}
        \cup {[NoOp EXCEPT !.op = "put", !.p = c[1], !.sz = c[2], !.v = c[3]] :
                 c \in Paths \X Sizes \X Arts}
        \cup {[NoOp EXCEPT !.op = "clear", !.clear_disk = b] : b \in BOOLEAN}
        \cup {[NoOp EXCEPT !.op = "purge"]}

\* the owner of cache_lock, per thread the call it is inside of, and the
\* position of cleanup_memory_if_needed with, for its current or last run:
\* whether the table's total was above disk_cache_limit when it took the lock,
\* whether it removed memory entries, whether it called
\* _cleanup_disk_cache_if_needed; runs counts the timeouts so far
NewThreads ==
    [lock |-> NoThread,
     call |-> [t \in CacheThreads |-> NoOp],
     sweep |-> [pc |-> "idle", over |-> FALSE, shrunk |-> FALSE, disk |-> FALSE,
                runs |-> 0]]

\* cache_lock can be taken by a thread that does not hold it
LockFree == thr.lock = NoThread

\* a thread starts a call: the tests made before the lock (175-177, 229-231)
\* pass, and `with self.cache_lock` is entered
ThreadEnter(t, c) ==
    /\ thr.call[t].op = "idle"
    /\ cache_calls < MaxThreadCalls
    /\ c.op = "get" => ~SourceMissing(c.p)
    /\ LockFree
    /\ thr' = [thr EXCEPT !.lock = t, !.call[t] = c]
    /\ cache_calls' = cache_calls + 1
    /\ UNCHANGED <<memory_cache, access_order, db, files, source, now, limits, last,
                   stats, poolVars, batch, prog, scn, loader>>

\* the body of the call under the lock; leaving the with block releases it
ThreadBody(t) ==
    LET c == thr.call[t] IN
    /\ c.op # "idle"
    /\ CASE c.op = "get" -> GetThumbnailLocked(c.p, c.sz)
         [] c.op = "put" -> StoreThumbnail(c.p, c.sz, c.v)
         [] c.op = "clear" ->
                LET r == ClearState(c.clear_disk) IN
                /\ memory_cache' = r.mc
                /\ access_order' = r.order
                /\ db' = r.db
                /\ files' = r.files
                /\ stats' = r.stats
                /\ last' = [NoCall EXCEPT !.op = "clear", !.ok = c.clear_disk]
         [] OTHER ->
                LET r == PurgeState IN
                /\ memory_cache' = r.mc
                /\ access_order' = r.order
                /\ db' = r.db
                /\ files' = r.files
                /\ last' = [NoCall EXCEPT !.op = "purge", !.ret = r.ret]
                /\ UNCHANGED stats
    /\ thr' = [thr EXCEPT !.lock = NoThread, !.call[t] = NoOp]
    /\ UNCHANGED <<source, now, limits, cache_calls, poolVars, batch, prog, scn, loader>>

\* cleanup_timer fires and cleanup_memory_if_needed enters its with block (430)
SweepEnter ==
    /\ thr.sweep.pc = "idle"
    /\ thr.sweep.runs < MaxSweeps
    /\ LockFree
    /\ thr' = [thr EXCEPT !.lock = Timer,
                          !.sweep = [pc |-> "locked",
                                     over |-> TotalSize(db) > limits.disk,
                                     shrunk |-> FALSE, disk |-> FALSE,
                                     runs |-> @.runs + 1]]
    /\ UNCHANGED <<cacheVars, poolVars, batch, prog, scn, loader>>

\* 432-440: purge_invalid_entries, which takes the re-entrant lock once more
SweepPurge ==
    /\ thr.sweep.pc = "locked"
    /\ LET r == PurgeState IN
       /\ memory_cache' = r.mc
       /\ access_order' = r.order
       /\ db' = r.db
       /\ files' = r.files
    /\ last' = NoCall
    /\ thr' = [thr EXCEPT !.sweep.pc = "purged"]
    /\ UNCHANGED <<source, now, limits, cache_calls, stats, poolVars, batch, prog, scn, loader>>

\* int(self.memory_limit * 0.8) and int(self.memory_limit * 0.7)
ShrinkThreshold == (8 * limits.memory) \div 10

ShrinkTarget == (7 * limits.memory) \div 10

\* a shrink that forgets the keys it pops from access_order
ShrinkMemory_KeepsEntries ==
    LET n == Min(Cardinality(MemKeys(memory_cache)) - ShrinkTarget, Len(access_order))
    IN [mc |-> memory_cache, order |-> SubSeq(access_order, n + 1, Len(access_order))]

\* 454-463: items_to_remove times, the oldest key is popped from access_order
\* and deleted from memory_cache
ShrinkMemory ==
    LET n == Min(Cardinality(MemKeys(memory_cache)) - ShrinkTarget, Len(access_order))
        gone == {access_order[i] : i \in 1..n}
    IN [mc |-> [k \in Keys |-> IF k \in gone THEN NoArt ELSE memory_cache[k]],
        order |-> SubSeq(access_order, n + 1, Len(access_order))]

\* 443-473: above the threshold the memory tier is cut down, the statistics are
\* written and the method returns True; otherwise it goes on to line 476
SweepMemory ==
    /\ thr.sweep.pc = "purged"
    /\ last' = NoCall
    /\ IF Cardinality(MemKeys(memory_cache)) > ShrinkThreshold
       THEN /\ memory_cache' = ShrinkMemory.mc
            /\ access_order' = ShrinkMemory.order
            /\ stats' = UpdatedDbStats
            /\ thr' = [thr EXCEPT !.lock = NoThread, !.sweep.pc = "idle",
                                  !.sweep.shrunk = TRUE]
       ELSE /\ thr' = [thr EXCEPT !.sweep.pc = "kept"]
            /\ UNCHANGED <<memory_cache, access_order, stats>>
    /\ UNCHANGED <<db, files, source, now, limits, cache_calls, poolVars, batch,
                   prog, scn, loader>>

\* 476: return self._cleanup_disk_cache_if_needed(), then the lock is released
SweepDisk ==
    /\ thr.sweep.pc = "kept"
    /\ \E entries \in SortedOrders(db) :
          LET st == CleanupDiskCacheIfNeeded(
                        [mc |-> memory_cache, order |-> access_order, db |-> db,
                         files |-> files, cur |-> TotalSize(db)], entries) IN
          /\ memory_cache' = st.mc
          /\ access_order' = st.order
          /\ db' = st.db
          /\ files' = st.files
    /\ last' = NoCall
    /\ thr' = [thr EXCEPT !.lock = NoThread, !.sweep.pc = "idle", !.sweep.disk = TRUE]
    /\ UNCHANGED <<source, now, limits, cache_calls, stats, poolVars, batch, prog, scn, loader>>

\* the thumbnails table and the cache files an earlier run of the program left
\* behind (86-111: CREATE TABLE IF NOT EXISTS): no row, or one row per image
PersistedTables ==
    {[db |-> [x \in PS |-> NoRow], files |-> [x \in PS |-> NoArt]]}
        \cup {[db |-> [x \in PS |->
                         IF x \in Paths \X Sizes
                         THEN [present |-> TRUE, cache_key |-> <<x[1], x[2], 0>>,
                               file_size |-> ArtSize(v), last_accessed |-> 0]
                         ELSE NoRow],
               files |-> [x \in PS |-> IF x \in Paths \X Sizes THEN v ELSE NoArt]] :
              v \in Arts}

\* --------------- EnhancedImageLoader (controllers/enhanced_image_loader.py)
\* the images requested: a directory and a file name; every request asks for
\* the same thumbnail size, so a request key is the path
Dirs == 1..NumDirs
RequestKeys == Dirs \X Ids
NoKey == <<0, 0>>

\* worker_id (259): "thumbnail_" + os.path.basename(image_path) + size; with one
\* size the id is the file name
WorkerId(k) == k[2]

\* pending_requests, active_requests and max_concurrent_requests (67-73); the
\* QTimer.singleShot(0, _process_next_request) calls not yet run; per worker the
\* request key bound into its result/error lambdas (255-256) and whether one of
\* them has run; the number of requests appended so far
NewLoaderWith(m) ==
    [pending |-> <<>>, active |-> {}, max |-> m, timers |-> 0,
     key |-> [t \in Tasks |-> NoKey], seen |-> [t \in Tasks |-> FALSE], enq |-> 0]

NewLoader == NewLoaderWith(MaxActive)

\* _process_next_request (219-263) run on the loader fields ld
ProcessNextRequest(ld) ==
    IF Cardinality(ld.active) >= ld.max \/ ld.pending = <<>>
    THEN /\ loader' = ld
         /\ UNCHANGED <<worker, active_workers, worker_start_times, mgrSig>>
    ELSE LET k == Head(ld.pending)
             ld1 == [ld EXCEPT !.pending = Tail(@)] IN
         IF k \in ld.active
         THEN /\ loader' = ld1
              /\ UNCHANGED <<worker, active_workers, worker_start_times, mgrSig>>
         ELSE \E t \in Tasks :
                 /\ worker[t].pc = "new"
                 /\ \A u \in Tasks : u < t => worker[u].pc # "new"
                 /\ \E started \in BOOLEAN :
                       LET r == IF started THEN StartSuccess(WorkerId(k), t)
                                ELSE StartFailure(WorkerId(k), t) IN
                       /\ worker' = r.wk
                       /\ active_workers' = r.act
                       /\ worker_start_times' = r.times
                       /\ mgrSig' = r.sig
                       /\ loader' = IF started
                                    THEN [ld1 EXCEPT !.active = @ \cup {k}, !.key[t] = k]
                                    ELSE [ld1 EXCEPT !.key[t] = k, !.timers = @ + 1]

\* request_thumbnail (151-217) for an existing image the cache does not hold and
\* whose key is not active: appended unless already pending, then
\* _process_next_request
RequestThumbnail(k) ==
    /\ k \notin loader.active
    /\ LET found_pending == \E n \in DOMAIN loader.pending : loader.pending[n] = k IN
       /\ found_pending \/ loader.enq < NumTasks
       /\ ProcessNextRequest(
             IF found_pending THEN loader
             ELSE [loader EXCEPT !.pending = Append(@, k), !.enq = @ + 1])
    /\ UNCHANGED <<stored, caps, inbox, caller, cacheVars, batch, prog, scn, thr>>

\* a deferred _process_next_request runs
LoaderTimer ==
    /\ loader.timers > 0
    /\ ProcessNextRequest([loader EXCEPT !.timers = @ - 1])
    /\ UNCHANGED <<stored, caps, inbox, caller, cacheVars, batch, prog, scn, thr>>

\* the worker's signal s has been emitted and its lambda has not yet run
Delivered(t, s) ==
    /\ loader.key[t] # NoKey
    /\ ~loader.seen[t]
    /\ \E n \in DOMAIN worker[t].sig : worker[t].sig[n] = s

\* on_thumbnail_created / on_thumbnail_error (266-315): the key is discarded
\* from active_requests and _process_next_request is deferred
Discard(t) ==
    [loader EXCEPT !.active = @ \ {loader.key[t]}, !.seen[t] = TRUE,
                   !.timers = @ + 1]

OnThumbnailCreated(t) ==
    /\ Delivered(t, "result")
    /\ loader' = Discard(t)
    /\ UNCHANGED <<poolVars, cacheVars, batch, prog, scn, thr>>

OnThumbnailError(t) ==
    /\ Delivered(t, "error")
    /\ loader' = Discard(t)
    /\ UNCHANGED <<poolVars, cacheVars, batch, prog, scn, thr>>

\* --------------- a fresh cache written entry by entry (store_thumbnail calls
\* for distinct paths in order, each followed by get_thumbnail calls or seconds)
Written == {p \in EntryPaths : scn.vals[p] # NoArt}

\* store_thumbnail(path, size, v) for the next path not yet written
WriteNext(v) ==
    LET p == Cardinality(Written) + 1 IN
    /\ p \in EntryPaths
    /\ StoreThumbnail(p, 1, v)
    /\ scn' = [log |-> Append(scn.log, <<"put", p>>),
               vals |-> [scn.vals EXCEPT ![p] = v],
               spaced |-> scn.spaced /\ \A x \in PS : db[x].present => db[x].last_accessed < now,
               cleaned |-> scn.cleaned \/ last'.over]
    /\ cache_calls' = cache_calls + 1
    /\ UNCHANGED <<source, now, limits, poolVars, batch, prog, thr, loader>>

\* get_thumbnail(path, size) for a path already written
ReadBack(p) ==
    /\ p \in Written
    /\ Len(scn.log) - Cardinality(Written) < MaxReads
    /\ GetThumbnail(p, 1)
    /\ scn' = [scn EXCEPT !.log = Append(@, <<"get", p>>)]
    /\ cache_calls' = cache_calls + 1
    /\ UNCHANGED <<source, now, limits, poolVars, batch, prog, thr, loader>>

\* a second passes between two calls
EntryTick ==
    /\ now < MaxEntryTime
    /\ now' = now + 1
    /\ UNCHANGED <<memory_cache, access_order, db, files, source, limits, last,
                   cache_calls, stats, poolVars, batch, extraVars>>

\* ------------------------- BaseWorker.update_progress (controllers/workers.py)
\* progress arguments: the values within Margin of 0 and of 100, out-of-range
\* ones included
Percents == (0 - Margin)..Margin \cup (100 - Margin)..(100 + Margin)

\* time.time() when the worker is constructed, in ticks; last_progress_time
\* starts at 0, a full interval or more before it
StartClock == IntervalTicks

\* last_progress and last_progress_time as __init__ sets them, the clock, the
\* number of calls and of progress signals so far, and the last argument
NewProgress ==
    [last_progress |-> 0, last_progress_time |-> 0, clock |-> StartClock,
     calls |-> 0, emitted |-> 0, arg |-> 0, value |-> 0]

\* the throttle test of update_progress: TRUE when the call returns early
Throttled(progress, pr) ==
    /\ progress # 100
    /\ progress - pr.last_progress < MinChange
    /\ pr.clock - pr.last_progress_time < IntervalTicks

\* max(0, min(100, progress))
Clamp(progress) == IF progress < 0 THEN 0 ELSE IF progress > 100 THEN 100 ELSE progress

\* update_progress(progress)
UpdateProgressCall(progress) ==
    /\ prog.calls < MaxProgressCalls
    /\ prog' = IF Throttled(progress, prog)
               THEN [prog EXCEPT !.calls = @ + 1, !.arg = progress]
               ELSE [prog EXCEPT !.calls = @ + 1, !.arg = progress,
                                 !.emitted = @ + 1, !.value = Clamp(progress),
                                 !.last_progress = Clamp(progress),
                                 !.last_progress_time = prog.clock]
    /\ UNCHANGED <<poolVars, cacheVars, batch, scn, thr, loader>>

\* time passes between two calls
ProgressTick ==
    /\ prog.clock < MaxClock
    /\ prog' = [prog EXCEPT !.clock = @ + 1]
    /\ UNCHANGED <<poolVars, cacheVars, batch, scn, thr, loader>>

\* ------------------------------------------------------------ initial state
Caps ==
    {c \in [HAS_PIL : BOOLEAN, HAS_VIPS : BOOLEAN, use_vips : BOOLEAN,
            fallback_to_qt : BOOLEAN, has_cache : BOOLEAN] :
        c.use_vips => c.HAS_VIPS}     \* __init__ 96-101: use_vips and HAS_VIPS

Init ==
    /\ worker = [t \in Tasks |-> NewWorker]
    /\ stored = {}
    /\ caps \in Caps
    /\ active_workers = [i \in Ids |-> None]
    /\ worker_start_times = {}
    /\ inbox = [t \in Tasks |-> <<>>]
    /\ mgrSig = [started |-> 0, finished |-> [i \in Ids |-> 0], all_done |-> 0,
                 errors |-> 0, cancelled |-> 0]
    /\ caller = [pc |-> [c \in Callers |-> "idle"], calls |-> [c \in Callers |-> 0],
                 log |-> <<>>, overlap |-> FALSE]
    /\ memory_cache = [k \in Keys |-> NoArt]
    /\ access_order = <<>>
    /\ db = [x \in PS |-> NoRow]
    /\ files = [x \in PS |-> NoArt]
    /\ source = [p \in AllPaths |-> [exists |-> TRUE, mtime |-> 0]]
    /\ now = 0
    /\ limits \in [memory : 0..MaxMemLimit, disk : {MaxDiskLimit}]
    /\ last = NoCall
    /\ cache_calls = 0
    /\ stats = NewStats
    /\ batch \in {NewBatch(bs, mc) : bs \in 1..MaxBatch, mc \in 0..MaxConc}
    /\ prog = NewProgress
    /\ scn = [log |-> <<>>, vals |-> [p \in EntryPaths |-> NoArt], spaced |-> TRUE,
             cleaned |-> FALSE]
    /\ thr = NewThreads
    /\ loader = NewLoader

\* ------------------------------------------------------------ specifications
\* DEFAULT_USE_VIPS / DEFAULT_FALLBACK_TO_QT (52-53) with both libraries present
DefaultCaps ==
    [HAS_PIL |-> TRUE, HAS_VIPS |-> TRUE, use_vips |-> TRUE,
     fallback_to_qt |-> TRUE, has_cache |-> TRUE]

\* The pool running workers of any BaseWorker subclass; no action reads caps.
DefaultLimits == [memory |-> MaxMemLimit, disk |-> MaxDiskLimit]

DefaultBatch == NewBatch(MaxBatch, MaxConc)

InitPool == Init /\ caps = DefaultCaps /\ limits = DefaultLimits /\ batch = DefaultBatch

NextPool ==
    \/ \E i \in Ids, t \in Tasks : StartWorker(i, t)
    \/ \E i \in Ids : CancelWorker(i)
    \/ CancelAll
    \/ \E t \in Tasks : RunStep(t)
    \/ \E t \in Tasks : WorkBody(t)
    \/ \E t \in Tasks : HandleFinished(t)
    \/ \E t \in Tasks : HandleError(t)

SpecPool == InitPool /\ [][NextPool]_vars

\* The WorkerManager with submissions that the thread pool may refuse.
NextManager ==
    \/ \E i \in Ids, t \in Tasks : StartWorker(i, t)
    \/ \E i \in Ids, t \in Tasks : StartWorkerFails(i, t)
    \/ \E i \in Ids : CancelWorker(i)
    \/ CancelAll
    \/ \E t \in Tasks : RunStep(t)
    \/ \E t \in Tasks : WorkBody(t)
    \/ \E t \in Tasks : HandleFinished(t)
    \/ \E t \in Tasks : HandleError(t)

SpecManager == InitPool /\ [][NextManager]_vars

\* One UnifiedThumbnailWorker run by the pool, under every capability set.
NextWorker ==
    \/ \E i \in Ids : StartWorker(i, 1)
    \/ \E i \in Ids : CancelWorker(i)
    \/ RunStep(1)
    \/ ThumbStep(1)
    \/ HandleFinished(1)
    \/ HandleError(1)

InitWorker == Init /\ limits = DefaultLimits /\ batch = DefaultBatch

SpecWorker == InitWorker /\ [][NextWorker]_vars

\* BaseWorker.cancel() called by several threads on worker 1 while it runs.
NextCancel ==
    \/ \E i \in Ids : StartWorker(i, 1)
    \/ RunStep(1)
    \/ WorkBody(1)
    \/ \E c \in Callers : CancelEnter(c)
    \/ \E c \in Callers : CancelSet(c)

SpecCancel == InitPool /\ [][NextCancel]_vars

\* The cache called from one control thread, with the files changing under it.
InitCache == Init /\ caps = DefaultCaps /\ batch = DefaultBatch

NextCache ==
    \/ \E p \in Paths, sz \in Sizes, v \in Arts \cup {NoArt} : Put(p, sz, v)
    \/ \E p \in Paths, sz \in Sizes : Get(p, sz)
    \/ Tick
    \/ \E p \in Paths : TouchSource(p)
    \/ \E p \in Paths : RemoveSource(p)

SpecCache == InitCache /\ [][NextCache]_vars

\* The cache with clear() and the statistics it keeps.
NextClear ==
    \/ \E p \in Paths, sz \in Sizes, v \in Arts : Put(p, sz, v)
    \/ \E p \in Paths, sz \in Sizes : Get(p, sz)
    \/ \E clear_disk \in BOOLEAN : Clear(clear_disk)
    \/ UpdateDbStats
    \/ GetStatsFails

SpecClear == InitCache /\ [][NextClear]_vars

\* The cache with purge_invalid_entries(), while files disappear under it.
NextPurge ==
    \/ \E p \in Paths, sz \in Sizes, v \in Arts : Put(p, sz, v)
    \/ \E p \in Paths, sz \in Sizes : Get(p, sz)
    \/ PurgeInvalidEntries
    \/ \E p \in Paths : RemoveSource(p)
    \/ \E x \in Paths \X Sizes : DeleteFile(x)

SpecPurge == InitCache /\ [][NextPurge]_vars

\* The cache constructed over the table of an earlier run, then called by
\* several threads while its cleanup_timer fires and source files disappear.
InitSweep ==
    /\ worker = [t \in Tasks |-> NewWorker]
    /\ stored = {}
    /\ caps = DefaultCaps
    /\ active_workers = [i \in Ids |-> None]
    /\ worker_start_times = {}
    /\ inbox = [t \in Tasks |-> <<>>]
    /\ mgrSig = [started |-> 0, finished |-> [i \in Ids |-> 0], all_done |-> 0,
                 errors |-> 0, cancelled |-> 0]
    /\ caller = [pc |-> [c \in Callers |-> "idle"], calls |-> [c \in Callers |-> 0],
                 log |-> <<>>, overlap |-> FALSE]
    /\ memory_cache = [k \in Keys |-> NoArt]
    /\ access_order = <<>>
    /\ \E tb \in PersistedTables : db = tb.db /\ files = tb.files
    /\ source = [p \in AllPaths |-> [exists |-> TRUE, mtime |-> 0]]
    /\ now = 0
    /\ limits \in [memory : 0..MaxMemLimit, disk : {MaxDiskLimit}]
    /\ last = NoCall
    /\ cache_calls = 0
    /\ stats = NewStats
    /\ batch = DefaultBatch
    /\ prog = NewProgress
    /\ scn = [log |-> <<>>, vals |-> [p \in EntryPaths |-> NoArt], spaced |-> TRUE,
             cleaned |-> FALSE]
    /\ thr = NewThreads
    /\ loader = NewLoader

NextSweep ==
    \/ \E t \in CacheThreads, c \in CacheOps : ThreadEnter(t, c)
    \/ \E t \in CacheThreads : ThreadBody(t)
    \/ SweepEnter
    \/ SweepPurge
    \/ SweepMemory
    \/ SweepDisk
    \/ \E p \in Paths : RemoveSource(p)

SpecSweep == InitSweep /\ [][NextSweep]_vars

\* An EnhancedImageLoader on its WorkerManager: views request thumbnails, the
\* pool runs the workers, the window may cancel them through the manager.
InitLoader ==
    /\ worker = [t \in Tasks |-> NewWorker]
    /\ stored = {}
    /\ caps = DefaultCaps
    /\ active_workers = [i \in Ids |-> None]
    /\ worker_start_times = {}
    /\ inbox = [t \in Tasks |-> <<>>]
    /\ mgrSig = [started |-> 0, finished |-> [i \in Ids |-> 0], all_done |-> 0,
                 errors |-> 0, cancelled |-> 0]
    /\ caller = [pc |-> [c \in Callers |-> "idle"], calls |-> [c \in Callers |-> 0],
                 log |-> <<>>, overlap |-> FALSE]
    /\ memory_cache = [k \in Keys |-> NoArt]
    /\ access_order = <<>>
    /\ db = [x \in PS |-> NoRow]
    /\ files = [x \in PS |-> NoArt]
    /\ source = [p \in AllPaths |-> [exists |-> TRUE, mtime |-> 0]]
    /\ now = 0
    /\ limits = DefaultLimits
    /\ last = NoCall
    /\ cache_calls = 0
    /\ stats = NewStats
    /\ batch = DefaultBatch
    /\ prog = NewProgress
    /\ scn = [log |-> <<>>, vals |-> [p \in EntryPaths |-> NoArt], spaced |-> TRUE,
             cleaned |-> FALSE]
    /\ thr = NewThreads
    /\ \E m \in 1..MaxActive : loader = NewLoaderWith(m)

NextLoader ==
    \/ \E k \in RequestKeys : RequestThumbnail(k)
    \/ LoaderTimer
    \/ \E t \in Tasks : OnThumbnailCreated(t)
    \/ \E t \in Tasks : OnThumbnailError(t)
    \/ \E i \in Ids : CancelWorker(i)
    \/ CancelAll
    \/ \E t \in Tasks : RunStep(t)
    \/ \E t \in Tasks : WorkBody(t)
    \/ \E t \in Tasks : HandleFinished(t)
    \/ \E t \in Tasks : HandleError(t)

SpecLoader == InitLoader /\ [][NextLoader]_vars

\* every callback and pool thread that can run does run
LiveLoader == SpecLoader /\ WF_vars(NextLoader)

\* The cache while source images are replaced by newer ones.
NextStale ==
    \/ \E p \in Paths, sz \in Sizes, v \in Arts : Put(p, sz, v)
    \/ \E p \in Paths, sz \in Sizes : Get(p, sz)
    \/ \E p \in Paths : RewriteSource(p)

SpecStale == InitCache /\ [][NextStale]_vars

\* One BatchProcessor driven by its owner.  process_images and cancel run to
\* completion on the owner's thread; when process_images returns, no timer and no
\* worker callback is pending, so the processor takes no further step on its own.
\* LiveBatch lets the owner go on calling for as long as a call is possible.
InitBatch == Init /\ caps = DefaultCaps /\ limits = DefaultLimits

NextBatch ==
    \/ \E keys \in KeyLists : ProcessImages(keys)
    \/ Cancel

SpecBatch == InitBatch /\ [][NextBatch]_vars

LiveBatch == SpecBatch /\ WF_vars(NextBatch)

\* A fresh cache filled entry by entry while seconds pass.
NextEntries ==
    \/ \E v \in Arts : WriteNext(v)
    \/ EntryTick

SpecEntries == InitCache /\ [][NextEntries]_vars

\* A fresh cache filled entry by entry and read back.
NextReadBack ==
    \/ \E v \in Arts : WriteNext(v)
    \/ \E p \in EntryPaths : ReadBack(p)

SpecReadBack == InitCache /\ [][NextReadBack]_vars

\* One worker reporting progress from its work() body while time passes.
InitProgress == Init /\ caps = DefaultCaps /\ limits = DefaultLimits /\ batch = DefaultBatch

NextProgress ==
    \/ \E progress \in Percents : UpdateProgressCall(progress)
    \/ ProgressTick

SpecProgress == InitProgress /\ [][NextProgress]_vars

\* ================================================================== claims
\* C5 (as stated): at any instant at most one task submitted under a given id
\* is running; no two tasks with the same id run concurrently.
C5_AtMostOneRunningPerId ==
    \A t1 \in Tasks, t2 \in Tasks :
        (t1 # t2 /\ worker[t1].wid # None /\ worker[t1].wid = worker[t2].wid)
            => ~(Running(t1) /\ Running(t2))

\* C5 (amended): whenever submit(id, ...) replaces the task registered under an
\* active id, the replaced task has had cancel() called on it (its flag is set)
\* by the time the new task is registered; the replaced task may still run.
C5_SubmitCancelsPrior ==
    [][\A i \in Ids :
          (active_workers[i] # None /\ active_workers'[i] # None
              /\ active_workers'[i] # active_workers[i])
            => worker'[active_workers[i]].is_cancelled]_vars

\* a cancelled task still on a pool thread while its replacement runs
C5_Witness ==
    \E t1 \in Tasks, t2 \in Tasks :
        /\ t1 # t2
        /\ worker[t1].wid # None
        /\ worker[t1].wid = worker[t2].wid
        /\ active_workers[worker[t2].wid] = t2
        /\ worker[t1].is_cancelled
        /\ Running(t1)
        /\ Running(t2)

\* C8: every run emits Started first and Finished last, Finished exactly once
\* whatever the outcome, and at most one of Result and Error in between.
C8_Lifecycle ==
    \A t \in Tasks :
        LET s == worker[t].sig IN
        /\ s # <<>> => s[1] = "started"
        /\ Count(s, "started") <= 1
        /\ Count(s, "finished") <= 1
        /\ Count(s, "result") + Count(s, "error") <= 1
        /\ Count(s, "finished") = 1 => Last(s) = "finished"
        /\ worker[t].pc = "done" => Count(s, "finished") = 1

\* a run cancelled before it started has completed: Started, then Finished
C8_Witness ==
    \E t \in Tasks :
        /\ worker[t].pc = "done"
        /\ worker[t].is_cancelled
        /\ worker[t].raisedAt = -1
        /\ worker[t].sig = <<"started", "finished">>

\* C9: once check_cancelled() has raised CancellationError in a task body, the
\* run emits neither Error nor Result, tries no further backend and produces
\* no placeholder.
C9_CancelIsNotFailure ==
    \A t \in Tasks :
        worker[t].raisedAt >= 0 =>
            /\ Len(worker[t].tried) = worker[t].raisedAt
            /\ Count(worker[t].sig, "error") = 0
            /\ Count(worker[t].sig, "result") = 0
            /\ worker[t].pixmap # "placeholder"

\* a run cancelled in the middle of a backend has ended
C9_Witness ==
    \E t \in Tasks :
        /\ worker[t].raisedAt >= 1
        /\ worker[t].pc = "done"
        /\ worker[t].sig = <<"started", "finished">>

ReturnedTrueFirstOnly ==
    /\ caller.log # <<>> =>
          /\ caller.log[1] = TRUE
          /\ \A k \in 2..Len(caller.log) : caller.log[k] = FALSE
          /\ worker[1].is_cancelled
    /\ worker[1].cancelled <= 1
    /\ worker[1].cancelled = 1 <=> worker[1].is_cancelled

\* C10 (as stated): in any sequence or interleaving of cancel() calls on one
\* task exactly the first call returns true, every later call returns false,
\* the flag stays set and the notification is emitted exactly once.
C10_IdempotentUnderInterleaving == ReturnedTrueFirstOnly

\* C10 (amended): the same, for cancel() calls that do not overlap in time
\* (each call returns before the next one is entered).
C10_IdempotentSequential == ~caller.overlap => ReturnedTrueFirstOnly

\* two sequential calls by different threads have returned
C10_Witness ==
    /\ ~caller.overlap
    /\ Len(caller.log) >= 2
    /\ \A c \in Callers : caller.calls[c] >= 1

\* C3: with memory_limit >= 1, after every store_thumbnail and get_thumbnail call
\* the memory tier holds at most memory_limit entries.
C3_MemoryBounded ==
    limits.memory >= 1 => Cardinality(MemKeys(memory_cache)) <= limits.memory

\* the memory tier is full and an entry still on disk has been evicted from it
C3_Witness ==
    /\ limits.memory >= 1
    /\ last.op \in {"put", "get"}
    /\ Cardinality(MemKeys(memory_cache)) = limits.memory
    /\ \E x \in PS : db[x].present /\ memory_cache[db[x].cache_key] = NoArt

\* C4 as stated: a get directly after a put of a valid artifact for the same
\* source and size returns that artifact, whatever the source.
C4_PutThenGet ==
    (last.op = "get" /\ last.afterPut) => last.ret = last.v

\* C4 amended: a get directly after a put of a valid artifact for the same source
\* and size returns that artifact when the source file exists and the cleanup
\* run by that put did not delete the entry just written.
C4_PutThenGetExisting ==
    (/\ last.op = "get"
     /\ last.afterPut
     /\ source[last.ps[1]].exists
     /\ ~last.evicted) => last.ret = last.v

\* a get directly after a put to a full memory tier returned the artifact put
C4_Witness ==
    /\ last.op = "get"
    /\ last.afterPut
    /\ source[last.ps[1]].exists
    /\ ~last.evicted
    /\ last.ret = last.v
    /\ last.v = NumArts
    /\ Cardinality(MemKeys(memory_cache)) >= 2

\* C1: a run started by process_images with max_concurrent >= 1 that is never
\* cancelled eventually emits batch_completed, exactly once.
C1_BatchTerminates ==
    [](batch.started /\ batch.max_concurrent >= 1 /\ ~batch.cancelled
          => <>(batch.cancelled \/ batch.batch_completed = 1))

Abs(x) == IF x < 0 THEN 0 - x ELSE x

\* C11: a call of update_progress emits exactly when the argument is 100, or it
\* differs from last_progress by at least 5 in either direction, or the interval
\* has passed since the last emission; otherwise nothing is emitted and
\* last_progress and last_progress_time stay as they were.
C11_EmitsExactlyWhen ==
    [][prog'.calls = prog.calls + 1 =>
         IF \/ prog'.arg = 100
            \/ Abs(prog'.arg - prog.last_progress) >= MinChange
            \/ prog.clock - prog.last_progress_time >= IntervalTicks
         THEN prog'.emitted = prog.emitted + 1
         ELSE /\ prog'.emitted = prog.emitted
              /\ prog'.last_progress = prog.last_progress
              /\ prog'.last_progress_time = prog.last_progress_time]_vars

\* C12: get_thumbnail for a source file that does not exist returns None,
\* whatever the memory tier and the thumbnails table hold for that path.
C12_MissingSourceIsMiss ==
    (last.op = "get" /\ ~source[last.ps[1]].exists) => last.ret = NoArt

\* a get for a removed source whose thumbnail is still on disk and in memory
C12_Witness ==
    /\ last.op = "get"
    /\ ~source[last.ps[1]].exists
    /\ last.ret = NoArt
    /\ db[last.ps].present
    /\ files[last.ps] # NoArt
    /\ \E k \in MemKeys(memory_cache) : k[1] = last.ps[1] /\ k[2] = last.ps[2]

Puts3 == <<<<"put", 1>>, <<"put", 2>>, <<"put", 3>>>>

\* C13 as stated: with memory_limit 2, after store_thumbnail for A, B and C on
\* a fresh cache, get_thumbnail(A) returns None while get_thumbnail(B) and
\* get_thumbnail(C) return what was stored.
C13_EvictedIsMiss ==
    (limits.memory = 2 /\ ~scn.cleaned /\ last.op = "get") =>
        /\ scn.log = Append(Puts3, <<"get", 1>>) => last.ret = NoArt
        /\ \A p \in {2, 3} : scn.log = Append(Puts3, <<"get", p>>) => last.ret = scn.vals[p]

\* C13 amended: A has left the memory tier and B and C are in it; B and C are
\* returned; A is returned too, read back from disk, whenever its row was
\* written, and is None only when it was not.
C13_EvictedFromMemoryOnly ==
    (limits.memory = 2 /\ ~scn.cleaned) =>
        /\ scn.log = Puts3 =>
              MemKeys(memory_cache) = {<<2, 1, 0>>, <<3, 1, 0>>}
        /\ \A p \in {2, 3} :
              scn.log = Append(Puts3, <<"get", p>>) => last.ret = scn.vals[p]
        /\ scn.log = Append(Puts3, <<"get", 1>>) =>
              last.ret = IF db[<<1, 1>>].present THEN scn.vals[1] ELSE NoArt

\* A was evicted from memory by the third write and then read back from disk
C13_Witness ==
    /\ limits.memory = 2
    /\ ~scn.cleaned
    /\ scn.log = Append(Puts3, <<"get", 1>>)
    /\ last.ret = scn.vals[1]
    /\ memory_cache[<<1, 1, 0>>] = scn.vals[1]
    /\ memory_cache[<<2, 1, 0>>] = NoArt

FourSmallWrites ==
    /\ Len(scn.log) = 4
    /\ \A p \in 1..4 : scn.vals[p] = 1
    /\ last.op = "put"
    /\ last.over

C16_MtimeChangesKey ==
    [][\A p \in Paths, sz \in Sizes :
          /\ source'[p] = source[p] => MakeKey(p, sz)' = MakeKey(p, sz)
          /\ (source[p].exists /\ source'[p].exists
                /\ source'[p].mtime # source[p].mtime)
                => MakeKey(p, sz)' # MakeKey(p, sz)]_vars

\* C18: every path popped from the queue by a scheduling pass of a run that is
\* not cancelled ends up in completed, so that the run's progress advances.
C18_PoppedIsCompleted ==
    \A k \in Paths :
        [](k \in batch.popped /\ ~batch.cancelled
              => <>(k \in batch.completed \/ batch.cancelled))

\* a run of work() that was not cancelled and ended without a backend's artifact:
\* the source was missing, or every attempt returned None
FailedRun(t) ==
    /\ worker[t].pc \in {"r_finally", "done"}
    /\ Count(worker[t].sig, "started") = 1
    /\ ~worker[t].is_cancelled
    /\ worker[t].raisedAt = -1
    /\ worker[t].pixmap \notin {"valid", "cached"}

\* C19: a task whose source is missing or whose every generation attempt failed
\* emits a Result carrying the placeholder and emits no Error.
C19_FailureGivesPlaceholder ==
    \A t \in Tasks :
        FailedRun(t) =>
            /\ Count(worker[t].sig, "result") = 1
            /\ Count(worker[t].sig, "error") = 0
            /\ worker[t].pixmap = "placeholder"

FallbackApplies(w) ==
    \/ w.use_engine # ENGINE_QT /\ caps.fallback_to_qt
    \/ w.use_engine # ENGINE_PIL /\ caps.HAS_PIL

\* C21: when the preferred backend fails and the fallback backend succeeds, the
\* task ends with a Result carrying the fallback's valid artifact and no Error;
\* an Error is never emitted after a single failed attempt while a fallback applies.
C21_FallbackResult ==
    \A t \in Tasks :
        LET w == worker[t] IN
        /\ (/\ w.pc \in {"r_finally", "done"} /\ ~w.is_cancelled /\ w.raisedAt = -1
            /\ Len(w.tried) = 2 /\ w.pixmap = "valid")
              => Count(w.sig, "result") = 1 /\ Count(w.sig, "error") = 0
        /\ (Count(w.sig, "error") > 0 /\ Len(w.tried) = 1) => ~FallbackApplies(w)

\* libvips failed on a large image, Qt succeeded, and the run has ended
C21_Witness ==
    \E t \in Tasks :
        /\ worker[t].pc = "done"
        /\ worker[t].tried = <<ENGINE_VIPS, ENGINE_QT>>
        /\ worker[t].pixmap = "valid"
        /\ worker[t].sig = <<"started", "result", "finished">>

\* C22: a task with a cache configured that ended with a backend's valid artifact
\* has passed that artifact to store_thumbnail.
C22_ValidResultIsStored ==
    \A t \in Tasks :
        (/\ worker[t].pc \in {"r_result", "r_finally", "done"}
         /\ caps.has_cache
         /\ worker[t].pixmap = "valid")
            => t \in stored

\* C23: when enqueueing fails inside start_worker, the call returns False, the id
\* is afterwards in neither the active map nor the start-time map, and
\* error_occurred is emitted once.
C23_EnqueueFailureRollsBack ==
    [][\A i \in Ids, t \in Tasks :
          StartWorkerFails(i, t) =>
              /\ StartFailure(i, t).ret = FALSE
              /\ active_workers'[i] = None
              /\ i \notin worker_start_times'
              /\ mgrSig'.errors = mgrSig.errors + 1
              /\ mgrSig'.started = mgrSig.started]_vars

\* a submission under an id that was active has failed
C23_Witness ==
    \E t \in Tasks, u \in Tasks :
        /\ worker[t].pc = "failed"
        /\ worker[u].wid = worker[t].wid
        /\ worker[u].is_cancelled
        /\ active_workers[worker[t].wid] = None
        /\ mgrSig.errors >= 1

\* C24: cancel_worker(id) returns True exactly when the id was active; then the
\* worker's flag is set and the id has left both maps in the same call, wherever
\* the worker's thread is; for an id that is not active it returns False and
\* changes nothing.
C24_CancelWorker ==
    [][\A i \in Ids :
          CancelWorker(i) =>
              IF active_workers[i] # None
              THEN /\ CancelWorkerReturns(i)
                   /\ worker'[active_workers[i]].is_cancelled
                   /\ worker'[active_workers[i]].pc = worker[active_workers[i]].pc
                   /\ active_workers'[i] = None
                   /\ i \notin worker_start_times'
              ELSE /\ ~CancelWorkerReturns(i)
                   /\ UNCHANGED vars]_vars

\* a worker cancelled through the manager is still on its thread inside work(),
\* its flag set and its id no longer active
C24_Witness ==
    \E t \in Tasks :
        /\ worker[t].pc = "work"
        /\ worker[t].is_cancelled
        /\ worker[t].wid # None
        /\ active_workers[worker[t].wid] = None
        /\ mgrSig.cancelled >= 1

\* the workers queued under id i so far
QueuedUnder(i) ==
    {t \in Tasks : worker[t].wid = i /\ worker[t].pc \notin {"new", "failed"}}

\* the run of t has ended and the manager has handled its signals
Handled(t) == worker[t].pc = "done" /\ inbox[t] = <<>>

\* C25: a registered task stays in the active map until it completes, and once
\* every task queued under an id has completed (by success, error or
\* cancellation) worker_finished has been emitted once for each of them.
C25_FinishedOncePerTask ==
    /\ \A t \in Tasks :
          (worker[t].pc \in RunningPcs \cup {"queued"} /\ ~worker[t].is_cancelled)
              => active_workers[worker[t].wid] = t
    /\ \A i \in Ids :
          (\A t \in QueuedUnder(i) : Handled(t))
              => mgrSig.finished[i] = Cardinality(QueuedUnder(i))

NoneActive(act) == \A i \in Ids : act[i] = None

\* C26: every step that takes the active map from non-empty to empty emits
\* all_workers_done, and all_workers_done is only emitted with the map empty.
C26_AllIdleOnEmpty ==
    [][/\ (~NoneActive(active_workers) /\ NoneActive(active_workers'))
            => mgrSig'.all_done = mgrSig.all_done + 1
       /\ mgrSig'.all_done # mgrSig.all_done => NoneActive(active_workers')]_vars

\* C27: a get that misses in memory returns a persisted artifact only from the
\* row whose cache_key is the key of the current (source, size, mtime).
C27_DiskLookupByKey ==
    [][\A p \in Paths, sz \in Sizes :
          (/\ Get(p, sz)
           /\ memory_cache[MakeKey(p, sz)] = NoArt
           /\ last'.ret # NoArt)
              => db[<<p, sz>>].cache_key = MakeKey(p, sz)]_vars

\* C30: every get_thumbnail call for a (source, size) that has been stored adds
\* one to the hits that get_stats reports, and every call that returns None adds
\* one to the misses, calls for a source that does not exist included; so, with
\* no clear in between, hits and misses are at least the numbers of such calls.
C30_StatsCountEveryGet ==
    [][\A p \in Paths, sz \in Sizes :
          Get(p, sz) =>
              /\ db[<<p, sz>>].present
                    => GetStats(stats').hits = GetStats(stats).hits + 1
              /\ last'.ret = NoArt
                    => GetStats(stats').misses = GetStats(stats).misses + 1]_vars

CacheEmpty(mc, order) == MemKeys(mc) = {} /\ order = <<>>

\* C28: after clear(True) memory, access order, rows and cache files are all
\* gone, get_stats reports hits, misses, writes and errors as 0, and a get is a
\* miss while nothing has been stored; after clear(False) memory and access order
\* are empty and rows and files are as before.
C28_Clear ==
    [][/\ Clear(TRUE) =>
            /\ CacheEmpty(memory_cache', access_order')
            /\ \A x \in PS : ~db'[x].present /\ files'[x] = NoArt
            /\ GetStats(stats') = [hits |-> 0, misses |-> 0, writes |-> 0, errors |-> 0]
       /\ Clear(FALSE) =>
            /\ CacheEmpty(memory_cache', access_order')
            /\ db' = db /\ files' = files
       /\ \A p \in Paths, sz \in Sizes :
            (/\ Get(p, sz)
             /\ CacheEmpty(memory_cache, access_order)
             /\ \A x \in PS : ~db[x].present)
                => last'.ret = NoArt]_vars

\* a row whose source file and cache file both exist
ValidRow(x) == db[x].present /\ source[x[1]].exists /\ files[x] # NoArt

RuleEngine(large) ==
    IF caps.use_vips /\ caps.HAS_VIPS /\ large THEN ENGINE_VIPS
    ELSE IF caps.HAS_PIL THEN ENGINE_PIL
    ELSE ENGINE_QT

\* C32: whatever the capabilities and the source size, the backend chosen is
\* vips when it is enabled and the source is larger than the threshold, otherwise
\* PIL if present, otherwise Qt.
C32_EngineRule ==
    \A t \in Tasks :
        worker[t].size \in {"small", "large"}
            => worker[t].use_engine = RuleEngine(worker[t].size = "large")

\* C32 (amended): vips when enabled and the source is larger than the threshold;
\* otherwise PIL if present; otherwise vips if enabled; otherwise Qt; and Qt
\* whenever the size of the source cannot be determined.
C32_EngineRuleWithVipsFallback ==
    \A t \in Tasks :
        LET w == worker[t]
            vips == caps.use_vips /\ caps.HAS_VIPS IN
        /\ w.size = "unknown" => w.use_engine = ENGINE_QT
        /\ w.size \in {"small", "large"} =>
              /\ (vips /\ w.size = "large") => w.use_engine = ENGINE_VIPS
              /\ (~(vips /\ w.size = "large") /\ caps.HAS_PIL) => w.use_engine = ENGINE_PIL
              /\ (w.size = "small" /\ ~caps.HAS_PIL /\ vips) => w.use_engine = ENGINE_VIPS
              /\ (~caps.HAS_PIL /\ ~vips) => w.use_engine = ENGINE_QT

\* a small source with vips enabled and PIL absent was given to vips
C32_Witness ==
    \E t \in Tasks :
        /\ worker[t].size = "small"
        /\ ~caps.HAS_PIL
        /\ caps.use_vips /\ caps.HAS_VIPS
        /\ worker[t].use_engine = ENGINE_VIPS

\* the run of t has left the generation attempts without being cancelled in them
AttemptsOver(t) ==
    /\ worker[t].tried # <<>>
    /\ worker[t].raisedAt = -1
    /\ worker[t].pc \in {"w_store", "r_result", "r_error", "r_finally", "done"}

NoRepeat(seq) == \A i \in DOMAIN seq, j \in DOMAIN seq : i # j => seq[i] # seq[j]

PutPutGetPut == <<<<"put", 1>>, <<"put", 2>>, <<"get", 1>>, <<"put", 3>>>>

\* C34: a get_thumbnail that hits memory makes its key the most recently used
\* and changes nothing else in memory; a store of a new key with the memory
\* tier full evicts exactly the least recently used key; so with memory_limit 2,
\* put A, put B, get A, put C leaves exactly A and C in memory.
C34_StrictLru ==
    [][/\ \A p \in EntryPaths :
            (ReadBack(p) /\ memory_cache[MakeKey(p, 1)] # NoArt)
                => /\ Last(access_order') = MakeKey(p, 1)
                   /\ memory_cache' = memory_cache
       /\ \A v \in Arts :
            (/\ WriteNext(v)
             /\ limits.memory >= 1
             /\ Cardinality(MemKeys(memory_cache)) = limits.memory
             /\ ~last'.over)
                => MemKeys(memory_cache') =
                      (MemKeys(memory_cache) \ {Head(access_order)})
                          \cup {MakeKey(Cardinality(Written) + 1, 1)}
       /\ (limits.memory = 2 /\ ~scn'.cleaned /\ scn'.log = PutPutGetPut)
            => MemKeys(memory_cache') = {<<1, 1, 0>>, <<3, 1, 0>>}]_vars

\* put A, put B, get A, put C was run with memory_limit 2 and B was evicted
C34_Witness ==
    /\ limits.memory = 2
    /\ ~scn.cleaned
    /\ scn.log = PutPutGetPut
    /\ memory_cache[<<2, 1, 0>>] = NoArt
    /\ access_order = <<<<1, 1, 0>>, <<3, 1, 0>>>>

C36_LockFreeBetweenSteps ==
    thr.sweep.pc \in {"purged", "kept"} => thr.lock = NoThread

\* the threads inside a `with self.cache_lock` block
InsideLock ==
    {t \in CacheThreads : thr.call[t].op # "idle"}
        \cup (IF thr.sweep.pc # "idle" THEN {Timer} ELSE {})

\* C37: whatever the interleaving of get, put, clear, purge and the sweep, at
\* most one thread is inside a locked block, it is the owner of cache_lock, and
\* access_order holds every key of memory_cache exactly once and no other key.
C37_SerializedAndConsistent ==
    /\ Cardinality(InsideLock) <= 1
    /\ \A t \in InsideLock : thr.lock = t
    /\ \A k \in Keys : Count(access_order, k) = IF memory_cache[k] # NoArt THEN 1 ELSE 0

\* two calls of the threads filled a memory tier of two entries, then a sweep
\* popped the oldest key and left the other one cached
C37_Witness ==
    /\ limits.memory = 2
    /\ thr.sweep.pc = "idle"
    /\ thr.sweep.shrunk
    /\ Cardinality(MemKeys(memory_cache)) = 1
    /\ Len(access_order) = 1

\* another task has taken the place of t under t's id
Replaced(t) == active_workers[worker[t].wid] \notin {None, t}

\* C38 (as stated): when the finished or error signal of a task that was
\* replaced under its id is handled, the replacing task stays in the active map
\* and neither worker_finished nor all_workers_done is emitted.
C38_StaleSignalIgnored ==
    [][\A t \in Tasks :
          ((HandleFinished(t) \/ HandleError(t)) /\ Replaced(t))
              => /\ active_workers' = active_workers
                 /\ mgrSig'.finished = mgrSig.finished
                 /\ mgrSig'.all_done = mgrSig.all_done]_vars

\* the loader has created a worker for t
LoaderTask(t) == loader.key[t] # NoKey

\* C39 (as stated): workers created for two distinct request keys never carry
\* the same worker id, and no step that submits the worker of one key cancels a
\* worker of a different key.
C39_DistinctKeysDistinctIds ==
    /\ [](\A t \in Tasks, u \in Tasks :
            (LoaderTask(t) /\ LoaderTask(u) /\ loader.key[t] # loader.key[u])
                => worker[t].wid # worker[u].wid)
    /\ [][\A t \in Tasks, u \in Tasks :
            (/\ worker[u].pc = "new" /\ worker'[u].pc # "new"
             /\ ~worker[t].is_cancelled /\ worker'[t].is_cancelled)
                => loader'.key[u] = loader.key[t]]_vars

\* C40 (as stated): active_requests never holds more than
\* max_concurrent_requests keys, and every key in it is removed again later.
C40_ActiveBoundedAndCleared ==
    /\ [](Cardinality(loader.active) <= loader.max)
    /\ \A k \in RequestKeys : (k \in loader.active) ~> (k \notin loader.active)

====
